---- MODULE Spec2Model ----
(***************************************************************************)
(* Model of streamlit_strength_only.py: a Streamlit script over a SQLite   *)
(* store (SQLAlchemy).  One step of the model is one execution of the      *)
(* whole script (Streamlit re-runs the script on every widget event).      *)
(*                                                                         *)
(* Weights (one_rm_kg, load_kg, tonnage) are integers in hundredths of a   *)
(* kilogram (ckg): 100.0 kg is 10000.  Dates are small integers.  Row ids  *)
(* are positions in the table's sequence (INTEGER PRIMARY KEY, no row is   *)
(* ever deleted except by dropping every table).                           *)
(***************************************************************************)
EXTENDS Integers, Sequences, FiniteSets, TLC

VARIABLES
    users,              \* table users              (lines 44-51)
    clients,            \* table clients            (lines 54-65)
    exercises,          \* table exercises          (lines 68-75)
    training_plans,     \* table training_plans     (lines 78-86)
    training_sessions,  \* table training_sessions  (lines 89-96)
    set_prescriptions,  \* table set_prescriptions  (lines 99-111)
    strength_tests,     \* table strength_tests     (lines 114-123)
    user,               \* st.session_state["user"]: a user id, 0 when absent
    page,               \* value of the sidebar radio "Navigate"
    click,              \* the button whose click triggered the last run (or the store operation)
    executed,           \* the page function the last script run executed
    gateUser,           \* "user" in st.session_state at line 396 of the last run
    err,                \* the uncaught exception that ended the last run
    dbOpen,             \* the last page invocation ended with its db session open
    tonnageShown,       \* the session totals written by line 346 in the last run
    form,               \* the add-set form of one session as computed in the last run
    dropped             \* the rows the last run deleted by dropping the tables

vars == <<users, clients, exercises, training_plans, training_sessions,
          set_prescriptions, strength_tests, user, page,
          click, executed, gateUser, err, dbOpen, tonnageShown, form, dropped>>

----------------------------------------------------------------------------
(* Bounds of the model *)

MaxTests == 3
MaxSessions == 2
MaxSets == 2
MaxClients == 2

(* Program constants *)

DefaultOneRm == 10000
MaxOneRm == 50000
PctMin == 30
PctMax == 100

None == -1

Pages == {"Strength Tests", "Sessions", "Diagnostics", "Settings"}

Credentials ==
    { [email |-> "coach@example.com",  pwd |-> "demo"],
      [email |-> "client@example.com", pwd |-> "demo"],
      [email |-> "coach@example.com",  pwd |-> "wrong"] }

----------------------------------------------------------------------------
(* Demo data *)

EmptyStore ==
    [users |-> <<>>, clients |-> <<>>, exercises |-> <<>>, training_plans |-> <<>>,
     training_sessions |-> <<>>, set_prescriptions |-> <<>>, strength_tests |-> <<>>]

PlanStart == 1

\* init_demo_data without the test of line 135
init_demo_data_unguarded(st) ==
    [st EXCEPT
        !.users = st.users \o
                  << [email |-> "coach@example.com",  hash |-> "demo", role |-> "coach"],
                     [email |-> "client@example.com", hash |-> "demo", role |-> "client"] >>,
        !.clients = Append(st.clients, [user_id |-> 2, owner_id |-> 1]),
        !.exercises = st.exercises \o
                      <<"Back Squat", "Bench Press", "Deadlift", "Lat Pulldown">>,
        !.training_plans = Append(st.training_plans,
                      [client_id |-> Len(st.clients) + 1, start_date |-> PlanStart])]

init_demo_data(st) ==
    IF st.users # <<>>
    THEN st
    ELSE [st EXCEPT
            !.users = << [email |-> "coach@example.com",  hash |-> "demo", role |-> "coach"],
                         [email |-> "client@example.com", hash |-> "demo", role |-> "client"] >>,
            !.clients = Append(st.clients, [user_id |-> 2, owner_id |-> 1]),
            !.exercises = st.exercises \o
                          <<"Back Squat", "Bench Press", "Deadlift", "Lat Pulldown">>,
            !.training_plans = Append(st.training_plans,
                          [client_id |-> Len(st.clients) + 1, start_date |-> PlanStart])]

SetStore(st) ==
    /\ users' = st.users
    /\ clients' = st.clients
    /\ exercises' = st.exercises
    /\ training_plans' = st.training_plans
    /\ training_sessions' = st.training_sessions
    /\ set_prescriptions' = st.set_prescriptions
    /\ strength_tests' = st.strength_tests

Cur ==
    [users |-> users, clients |-> clients, exercises |-> exercises,
     training_plans |-> training_plans, training_sessions |-> training_sessions,
     set_prescriptions |-> set_prescriptions, strength_tests |-> strength_tests]

\* line 156: every script run calls init_demo_data() before anything else
Seeded == init_demo_data(Cur)

\* a drop that misses the strength_tests table
drop_all_but_tests(st) == [EmptyStore EXCEPT !.strength_tests = st.strength_tests]

\* Base.metadata.drop_all(engine); Base.metadata.create_all(engine)
drop_all(st) == EmptyStore

----------------------------------------------------------------------------
(* Derived metrics *)

\* the multiples of q nearest to x; both neighbours when x is half-way
\* (Python rounds the binary double, so a decimal tie goes either way)
RoundTo(x, q) ==
    LET lo == (x \div q) * q
        r  == x % q
    IN  IF 2 * r < q THEN {lo}
        ELSE IF 2 * r > q THEN {lo + q}
        ELSE {lo, lo + q}

\* the product cut, not rounded, to one decimal
suggested_load_floor(pct, one_rm_input) ==
    { ((pct * one_rm_input) \div 1000) * 10 }

\* round((pct / 100.0) * one_rm_input, 1): pct * one_rm_input is in 1e-4 kg
suggested_load(pct, one_rm_input) ==
    { r \div 100 : r \in RoundTo(pct * one_rm_input, 1000) }

\* f"{session_tonnage:.1f}"
Fmt1(x) == RoundTo(x, 10)

tonnage(sp) == sp.sets * sp.reps * sp.load_kg

\* the query without its filter
session_sets_all(sps, s) == sps

\* db.query(SetPrescription).filter(SetPrescription.session_id == s.id).all()
session_sets(sps, s) ==
    LET match(sp) == sp.session_id = s
    IN  SelectSeq(sps, match)

RECURSIVE sum_tonnage(_)
sum_tonnage(rows) ==
    IF rows = <<>> THEN 0
    ELSE tonnage(Head(rows)) + sum_tonnage(Tail(rows))

session_tonnage(sps, s) == sum_tonnage(session_sets(sps, s))

get_client_id_from_plan(pl) == training_plans[pl].client_id

\* the query without the filter on the exercise
get_latest_any_exercise(client_id, exercise_id) ==
    LET M == { i \in DOMAIN strength_tests : strength_tests[i].client_id = client_id }
        top == { i \in M : \A j \in M : strength_tests[j].date <= strength_tests[i].date }
    IN  IF M = {} THEN {None}
        ELSE { strength_tests[i].one_rm_kg : i \in top }

\* the query ordered by ascending date
get_oldest_one_rm(client_id, exercise_id) ==
    LET M == { i \in DOMAIN strength_tests :
                 /\ strength_tests[i].client_id = client_id
                 /\ strength_tests[i].exercise_id = exercise_id }
        top == { i \in M : \A j \in M : strength_tests[i].date <= strength_tests[j].date }
    IN  IF M = {} THEN {None}
        ELSE { strength_tests[i].one_rm_kg : i \in top }

\* the values .order_by(StrengthTest.date.desc()).first() can return: the
\* query has no secondary sort key, any row with the greatest date may be first
get_latest_one_rm(client_id, exercise_id) ==
    LET M == { i \in DOMAIN strength_tests :
                 /\ strength_tests[i].client_id = client_id
                 /\ strength_tests[i].exercise_id = exercise_id }
        top == { i \in M : \A j \in M : strength_tests[j].date <= strength_tests[i].date }
    IN  IF M = {} THEN {None}
        ELSE { strength_tests[i].one_rm_kg : i \in top }

\* float(latest_1rm) if latest_1rm else 100.0
one_rm_default(latest_1rm) ==
    IF latest_1rm # None /\ latest_1rm # 0 THEN latest_1rm ELSE DefaultOneRm

----------------------------------------------------------------------------
(* Observations of one script run *)

NoForm ==
    [shown |-> FALSE, s |-> 0, ex |-> 0, latest_1rm |-> None, default |-> 0,
     pct |-> 0, one_rm_input |-> 0, suggested |-> 0, load |-> 0]

ObserveRun(c, e, g, x, o, t, f, n) ==
    /\ click' = c
    /\ executed' = e
    /\ gateUser' = g
    /\ err' = x
    /\ dbOpen' = o
    /\ tonnageShown' = t
    /\ form' = f
    /\ dropped' = n

Observe(c, e, g, x, o, t, f) == ObserveRun(c, e, g, x, o, t, f, 0)

RowCount(st) ==
    Len(st.users) + Len(st.clients) + Len(st.exercises) + Len(st.training_plans)
    + Len(st.training_sessions) + Len(st.set_prescriptions) + Len(st.strength_tests)

Init ==
    /\ users = init_demo_data(EmptyStore).users
    /\ clients = init_demo_data(EmptyStore).clients
    /\ exercises = init_demo_data(EmptyStore).exercises
    /\ training_plans = init_demo_data(EmptyStore).training_plans
    /\ training_sessions = <<>>
    /\ set_prescriptions = <<>>
    /\ strength_tests = <<>>
    /\ user = 0
    /\ page = "Strength Tests"
    /\ click = "none"
    /\ executed = "none"
    /\ gateUser = FALSE
    /\ err = "none"
    /\ dbOpen = FALSE
    /\ tonnageShown = {}
    /\ form = NoForm
    /\ dropped = 0

----------------------------------------------------------------------------
(* The script, one action per outcome of the gate and the page dispatch *)

\* db.query(User).filter(User.email==email, User.hash==pwd).first()
login_lookup(cr) ==
    LET M == { i \in DOMAIN users :
                 users[i].email = cr.email /\ users[i].hash = cr.pwd }
    IN  IF M = {} THEN 0 ELSE CHOOSE i \in M : \A j \in M : i <= j

\* a gate that lets Settings through as well
gate_open_settings(u, p) == u # 0 \/ p \in {"Diagnostics", "Settings"}

\* line 396: the pages a run may dispatch to with this session state
gate_open(u, p) == u # 0 \/ p \in {"Diagnostics"}

\* lines 396-397, 178-182, 163-176: no user at the gate; the login form is
\* rendered and st.stop() ends the run, whether or not the sign-in succeeded
require_auth(p, btn, cr) ==
    /\ ~gate_open(user, p)
    /\ btn \in {"none", "signin"}
    /\ btn = "signin" => (page = p /\ executed = "none")
    /\ page' = p
    /\ user' = IF btn = "signin" THEN login_lookup(cr) ELSE user
    /\ SetStore(Seeded)
    /\ Observe(btn, "none", FALSE, "none", FALSE, {}, NoForm)

\* lines 380-383: Log out pops the user; the gate then stops the run unless
\* the page is Diagnostics
logout ==
    /\ user # 0
    /\ gateUser
    /\ user' = 0
    /\ page' = page
    /\ SetStore(Seeded)
    /\ Observe("logout",
               IF gate_open(0, page) THEN page ELSE "none",
               FALSE, "none", FALSE, {}, NoForm)

\* lines 361-370
page_diagnostics ==
    /\ gate_open(user, "Diagnostics")
    /\ page' = "Diagnostics"
    /\ user' = user
    /\ SetStore(Seeded)
    /\ Observe("none", "Diagnostics", user # 0, "none", FALSE, {}, NoForm)

\* lines 351-358
page_settings(btn) ==
    /\ gate_open(user, "Settings")
    /\ btn \in {"none", "reset"}
    /\ btn = "reset" => (page = "Settings" /\ executed = "Settings")
    /\ page' = "Settings"
    /\ user' = user
    /\ IF btn = "reset"
       THEN SetStore(init_demo_data(drop_all(Seeded)))
       ELSE SetStore(Seeded)
    /\ ObserveRun(btn, "Settings", user # 0, "none", FALSE, {}, NoForm,
                  IF btn = "reset" THEN RowCount(Seeded) ELSE 0)

\* client_map = {name: c.id}: of the coach's clients that share a user (a
\* name), the dict keeps the last
client_map(owned) ==
    { c \in owned : \A c2 \in owned : clients[c2].user_id = clients[c].user_id => c2 <= c }

\* lines 189-229
page_strength_tests(btn, c, e, d, r, fail) ==
    LET owned == { i \in DOMAIN clients : clients[i].owner_id = user }
        early == owned = {} \/ exercises = <<>>
        lookupFails == \E i \in owned : clients[i].user_id \notin DOMAIN users
    IN
    /\ gate_open(user, "Strength Tests")
    /\ btn \in {"none", "save_test"}
    /\ btn = "save_test" =>
          /\ page = "Strength Tests" /\ executed = "Strength Tests" /\ err = "none"
          /\ ~early /\ ~lookupFails
          /\ c \in client_map(owned) /\ e \in DOMAIN exercises
          /\ r \in 0..MaxOneRm
          /\ Len(strength_tests) < MaxTests
    /\ page' = "Strength Tests"
    /\ user' = user
    /\ IF owned = {}
       THEN /\ SetStore(Seeded)
            /\ Observe(btn, "Strength Tests", user # 0, "none", FALSE, {}, NoForm)
       ELSE IF lookupFails
       THEN /\ SetStore(Seeded)
            /\ Observe(btn, "Strength Tests", user # 0, "AttributeError", TRUE, {}, NoForm)
       ELSE IF exercises = <<>>
       THEN /\ SetStore(Seeded)
            /\ Observe(btn, "Strength Tests", user # 0, "none", FALSE, {}, NoForm)
       ELSE IF btn = "save_test" /\ fail
       THEN /\ SetStore(Seeded)
            /\ Observe(btn, "Strength Tests", user # 0, "OperationalError", TRUE, {}, NoForm)
       ELSE /\ SetStore(IF btn = "save_test"
                        THEN [Seeded EXCEPT !.strength_tests = Append(@,
                                [client_id |-> c, exercise_id |-> e, date |-> d,
                                 one_rm_kg |-> r])]
                        ELSE Seeded)
            /\ Observe(btn, "Strength Tests", user # 0, "none", FALSE, {}, NoForm)

\* line 346 for every session in S: what st.info can show for each
ShownChoices(S, sps) ==
    LET Cand == UNION { { [s |-> s, kg |-> v] : v \in Fmt1(session_tonnage(sps, s)) } : s \in S }
    IN  { T \in SUBSET Cand : \A s \in S : Cardinality({ t \in T : t.s = s }) = 1 }

\* the sessions the loop of line 281 has finished before it reaches fs
\* (.order_by(TrainingSession.date): equal dates come in any order)
Before(listed, sess, fs) ==
    { B \in SUBSET (listed \ {fs}) :
        \A s \in listed \ {fs} :
            /\ sess[s].date < sess[fs].date => s \in B
            /\ sess[s].date > sess[fs].date => s \notin B }

\* lines 232-348.  in: the widget values of the run (d: date of the new
\* session; fs: the session whose add-set form is observed and whose button
\* may be clicked; ex, nsets, nreps, pct: its widgets; orm, ld: the typed
\* 1RM and load, None to keep the widget's default)
page_sessions(btn, in, fail) ==
    /\ gate_open(user, "Sessions")
    /\ btn \in {"none", "add_session", "add_set"}
    /\ btn # "none" => (page = "Sessions" /\ executed = "Sessions" /\ err = "none")
    /\ btn = "add_session" => Len(training_sessions) < MaxSessions
    /\ btn = "add_set" => (Len(set_prescriptions) < MaxSets /\ in.fs \in DOMAIN training_sessions)
    /\ page' = "Sessions"
    /\ user' = user
    /\ IF training_plans = <<>>
       THEN /\ SetStore(Seeded)
            /\ Observe(btn, "Sessions", user # 0, "none", FALSE, {}, NoForm)
       ELSE IF btn = "add_session" /\ fail
       THEN /\ SetStore(Seeded)
            /\ Observe(btn, "Sessions", user # 0, "OperationalError", TRUE, {}, NoForm)
       ELSE \E plan \in DOMAIN training_plans :
            LET sess1 == IF btn = "add_session"
                         THEN Append(training_sessions, [plan_id |-> plan, date |-> in.d])
                         ELSE training_sessions
                listed == { i \in DOMAIN sess1 : sess1[i].plan_id = plan }
            IN
            /\ IF listed = {}
               THEN /\ SetStore([Seeded EXCEPT !.training_sessions = sess1])
                    /\ Observe(btn, "Sessions", user # 0, "none", FALSE, {}, NoForm)
               ELSE IF exercises = <<>>
               THEN /\ SetStore([Seeded EXCEPT !.training_sessions = sess1])
                    /\ Observe(btn, "Sessions", user # 0, "KeyError", TRUE, {}, NoForm)
               ELSE
                  /\ in.fs \in listed
                  /\ in.ex \in DOMAIN exercises
                  /\ \E latest_1rm \in get_latest_one_rm(get_client_id_from_plan(plan), in.ex) :
                     LET default == one_rm_default(latest_1rm)
                         one_rm_input == IF in.orm = None THEN default ELSE in.orm
                     IN
                     /\ one_rm_input \in 0..MaxOneRm
                     /\ in.pct \in PctMin..PctMax
                     /\ \E sug \in suggested_load(in.pct, one_rm_input) :
                        LET load == IF in.ld = None THEN sug ELSE in.ld
                            f == [shown |-> TRUE, s |-> in.fs, ex |-> in.ex,
                                  latest_1rm |-> latest_1rm, default |-> default,
                                  pct |-> in.pct, one_rm_input |-> one_rm_input,
                                  suggested |-> sug, load |-> load]
                            sp == [session_id |-> in.fs, exercise_id |-> in.ex,
                                   sets |-> in.nsets, reps |-> in.nreps,
                                   intensity_pct_1rm |-> in.pct, load_kg |-> load]
                        IN
                        IF btn = "add_set" /\ fail
                        THEN /\ SetStore([Seeded EXCEPT !.training_sessions = sess1])
                             /\ \E B \in Before(listed, sess1, in.fs) :
                                \E T \in ShownChoices(B, set_prescriptions) :
                                   Observe(btn, "Sessions", user # 0, "OperationalError",
                                           TRUE, T, f)
                        ELSE /\ SetStore([Seeded EXCEPT
                                          !.training_sessions = sess1,
                                          !.set_prescriptions =
                                              IF btn = "add_set" THEN Append(@, sp) ELSE @])
                             /\ \E T \in ShownChoices(listed, set_prescriptions') :
                                   Observe(btn, "Sessions", user # 0, "none", FALSE, T, f)

\* db.add(Client(user_id=u, owner_id=o)); db.commit() on the engine of line
\* 36: SQLite checks no foreign key unless PRAGMA foreign_keys is set, and
\* nothing sets it
insert_client(u, o) ==
    /\ Len(clients) < MaxClients
    /\ clients' = Append(clients, [user_id |-> u, owner_id |-> o])
    /\ UNCHANGED <<users, exercises, training_plans, training_sessions,
                   set_prescriptions, strength_tests, user, page>>
    /\ Observe("insert_client", executed, gateUser, "none", FALSE, {}, NoForm)

----------------------------------------------------------------------------
(* Specifications: the same script under different sets of widget inputs.  *)
(* D.cred: what is typed in the login form; D.tests: the values of the     *)
(* 1RM test form; D.sdate: the date of a new session; D.sbtn: the buttons  *)
(* of the Sessions page that get clicked; D.tbtn: those of the Strength    *)
(* Tests page; D.setin: the values of an add-set form; D.fail: whether a   *)
(* commit can raise.                                                       *)

NextD(D) ==
    \/ \E p \in Pages, btn \in {"none", "signin"}, cr \in D.cred :
          require_auth(p, btn, cr)
    \/ logout
    \/ page_diagnostics
    \/ \E btn \in {"none", "reset"} : page_settings(btn)
    \/ \E btn \in D.tbtn, t \in D.tests, fail \in D.fail :
          page_strength_tests(btn, 1, t.e, t.d, t.r, fail)
    \/ \E btn \in D.sbtn, d \in D.sdate, fs \in 1..MaxSessions, si \in D.setin,
          fail \in D.fail :
          page_sessions(btn,
                        [d |-> d, fs |-> fs, ex |-> si.ex, nsets |-> si.nsets,
                         nreps |-> si.nreps, pct |-> si.pct, orm |-> si.orm, ld |-> si.ld],
                        fail)

AllButtons == {"none", "add_session", "add_set"}

DefaultSet == [ex |-> 1, nsets |-> 4, nreps |-> 6, pct |-> 75, orm |-> None, ld |-> None]

\* every page and button, one value per widget
DomBase ==
    [cred |-> Credentials,
     tests |-> { [e |-> 1, d |-> 1, r |-> 10000] },
     tbtn |-> {"none", "save_test"},
     sdate |-> {PlanStart},
     sbtn |-> AllButtons,
     setin |-> {DefaultSet},
     fail |-> {FALSE}]

Next == NextD(DomBase)

Spec == Init /\ [][Next]_vars

\* inputs that vary the prescribed sets: a typed load beside a rounded
\* suggestion, which the total shows half-way between two tenths, and a
\* suggestion that is itself half-way; no test is saved
DomSets ==
    [DomBase EXCEPT
       !.cred = { [email |-> "coach@example.com", pwd |-> "demo"] },
       !.tbtn = {"none"},
       !.setin = { [DefaultSet EXCEPT !.nsets = 1, !.nreps = 1, !.orm = 8050, !.ld = 6025],
                   [DefaultSet EXCEPT !.pct = 30, !.orm = 8050] }]

NextSets == NextD(DomSets)

SpecSets == Init /\ [][NextSets]_vars

\* inputs that vary the strength tests: two exercises, two dates, a 1RM of
\* zero, two tests of one exercise on one date; no set is added
DomTests ==
    [DomBase EXCEPT
       !.cred = { [email |-> "coach@example.com", pwd |-> "demo"] },
       !.tests = { [e |-> 1, d |-> 1, r |-> 8050], [e |-> 1, d |-> 2, r |-> 0],
                   [e |-> 1, d |-> 2, r |-> 9000], [e |-> 2, d |-> 2, r |-> 7000] },
       !.sbtn = {"none", "add_session"},
       !.setin = { DefaultSet, [DefaultSet EXCEPT !.ex = 2] }]

NextTests == NextD(DomTests)

SpecTests == Init /\ [][NextTests]_vars

\* the store can fail a commit
DomFault == [DomBase EXCEPT !.fail = {FALSE, TRUE}, !.sdate = {1, 2}]

NextFault == NextD(DomFault)

SpecFault == Init /\ [][NextFault]_vars

\* the store's insert of a Client row, beside the script
NextStore ==
    \/ NextD(DomBase)
    \/ \E u \in {2, 3} : insert_client(u, 1)

SpecStore == Init /\ [][NextStore]_vars

----------------------------------------------------------------------------
(* Properties *)

RECURSIVE SumOver(_, _)
SumOver(I, f) ==
    IF I = {} THEN 0
    ELSE LET i == CHOOSE j \in I : TRUE
         IN  f[i] + SumOver(I \ {i}, f)

RowsOf(s) == { i \in DOMAIN set_prescriptions : set_prescriptions[i].session_id = s }

RowTonnage ==
    [ i \in DOMAIN set_prescriptions |->
        set_prescriptions[i].sets * set_prescriptions[i].reps * set_prescriptions[i].load_kg ]

\* the strength tests of the client and exercise of the observed add-set form
FormClient == training_plans[training_sessions[form.s].plan_id].client_id

FormTests ==
    { i \in DOMAIN strength_tests :
        /\ strength_tests[i].client_id = FormClient
        /\ strength_tests[i].exercise_id = form.ex }

FormLatest ==
    { i \in FormTests : \A j \in FormTests : strength_tests[j].date <= strength_tests[i].date }

IsPrefix(a, b) == Len(a) <= Len(b) /\ \A i \in DOMAIN a : b[i] = a[i]

OneMore(a, b) == Len(b) = Len(a) + 1 /\ IsPrefix(a, b)

DemoStore == init_demo_data(EmptyStore)

\* C1: a run of the Sessions page shows, for every session of the plan, the
\* sum of sets * reps * load_kg over exactly the set prescriptions of that
\* session (to the one decimal the page prints), 0 for a session without rows
C1_TonnageIsSessionSum ==
    (executed = "Sessions" /\ err = "none") =>
        /\ \A s \in DOMAIN training_sessions : \E t \in tonnageShown : t.s = s
        /\ \A t \in tonnageShown :
              /\ t.kg \in Fmt1(SumOver(RowsOf(t.s), RowTonnage))
              /\ RowsOf(t.s) = {} => t.kg = 0

\* two sessions with rows and different totals are shown after an add-set click
C1_Witness ==
    /\ click = "add_set" /\ executed = "Sessions"
    /\ \E t1, t2 \in tonnageShown : t1.s # t2.s /\ t1.kg > 0 /\ t2.kg > t1.kg

C3_DefaultIsLatest ==
    form.shown =>
        IF FormTests = {}
        THEN form.default = DefaultOneRm
        ELSE form.default = form.latest_1rm

\* C4: the suggested load is pct/100 * one_rm rounded to one decimal, and
\* the row saved holds the value of the load input
C4_SuggestedLoadRounded ==
    /\ form.shown =>
          /\ form.suggested % 10 = 0
          /\ 2 * (form.suggested * 100 - form.pct * form.one_rm_input) <= 1000
          /\ 2 * (form.pct * form.one_rm_input - form.suggested * 100) <= 1000
          /\ (click = "add_set" /\ err = "none") =>
                set_prescriptions[Len(set_prescriptions)].load_kg = form.load
    /\ suggested_load(75, 10000) = {7500}
    /\ \A pct \in {0, 1, 15, 29}, r \in {5, 8050, 12345, MaxOneRm} :
          \A v \in suggested_load(pct, r) :
             /\ v % 10 = 0
             /\ 2 * (v * 100 - pct * r) <= 1000
             /\ 2 * (pct * r - v * 100) <= 1000

\* a set is saved with a typed load while the suggestion was rounded
C4_Witness ==
    /\ click = "add_set" /\ form.shown
    /\ form.load # form.suggested
    /\ form.suggested * 100 # form.pct * form.one_rm_input

\* C5: an insert of a Client row either adds a row whose user_id is the id of
\* a User row, or fails with an integrity error and adds nothing
C5_ClientInsertChecksUser ==
    [][click' = "insert_client" =>
          \/ /\ OneMore(clients, clients')
             /\ clients'[Len(clients')].user_id \in DOMAIN users'
             /\ err' = "none"
          \/ /\ clients' = clients
             /\ err' = "IntegrityError"]_vars

\* C6: after the reset the store holds the demo rows and nothing else
C6_ResetLeavesDemoData ==
    click = "reset" =>
        /\ Len(users) = 2
        /\ Cardinality({ i \in DOMAIN users : users[i].role = "coach" }) = 1
        /\ Cardinality({ i \in DOMAIN users : users[i].role = "client" }) = 1
        /\ Len(clients) = 1
        /\ Len(exercises) = 4
        /\ Len(training_plans) = 1
        /\ training_sessions = <<>>
        /\ strength_tests = <<>>
        /\ set_prescriptions = <<>>
        /\ Cur = DemoStore

\* a reset that dropped sessions, tests and sets beside the demo rows
C6_Witness == click = "reset" /\ executed = "Settings" /\ dropped > RowCount(DemoStore) + 2

\* C7: a run with no user at the gate executes no page but Diagnostics and
\* leaves the store as it was
C7_GateBlocksPages ==
    [][~gateUser' =>
          /\ executed' \in {"none", "Diagnostics"}
          /\ Cur' = Cur]_vars

\* Log out pressed on the Sessions page: the page is not executed in that run
C7_Witness ==
    click = "logout" /\ page = "Sessions" /\ executed = "none" /\ ~gateUser

C9_TieLastInsertedWins ==
    (form.shown /\ Cardinality(FormLatest) >= 2) =>
        form.latest_1rm =
            strength_tests[CHOOSE i \in FormLatest : \A j \in FormLatest : j <= i].one_rm_kg

\* C9 amended: among the tests that share the greatest date, one of them is
\* returned
C9_TieReturnsTiedRow ==
    (form.shown /\ Cardinality(FormLatest) >= 2) =>
        \E i \in FormLatest : form.latest_1rm = strength_tests[i].one_rm_kg

\* two tests share the greatest date, an older test exists, and the 1RM of
\* the tied test inserted first is returned
C9_Witness ==
    /\ form.shown /\ Cardinality(FormLatest) >= 2
    /\ FormTests # FormLatest
    /\ LET first == CHOOSE i \in FormLatest : \A j \in FormLatest : i <= j
           last  == CHOOSE i \in FormLatest : \A j \in FormLatest : j <= i
       IN  /\ form.latest_1rm = strength_tests[first].one_rm_kg
           /\ form.latest_1rm # strength_tests[last].one_rm_kg

\* C10: no invocation of page_strength_tests or page_sessions ends with its
\* store session open
C10_SessionClosed ==
    executed \in {"Strength Tests", "Sessions"} => ~dbOpen

====
